---- MODULE Spec2Model ----
(***************************************************************************)
(* getdns-info: a REST API that validates a `domain` query parameter and   *)
(* runs one lookup per request.  Strings are modelled as sequences of      *)
(* characters; a character is a one-character TLA+ string, except the      *)
(* non-ASCII KELVIN SIGN, written "U+212A".                                *)
(***************************************************************************)
EXTENDS Integers, Sequences, FiniteSets, TLC

VARIABLES
    input,      \* validator run: the string handed to extractAndValidateDomain
    result,     \* validator run: what it returned (Pending before the call)
    reqs,       \* HTTP: one record per request slot
    cluster     \* process entry point: the primary's view of its workers

vars == <<input, result, reqs, cluster>>

(***************************************************************************)
(* Characters                                                              *)
(***************************************************************************)
LowerAlpha ==
    {"a","b","c","d","e","f","g","h","i","j","k","l","m",
     "n","o","p","q","r","s","t","u","v","w","x","y","z"}

UpperAlpha ==
    {"A","B","C","D","E","F","G","H","I","J","K","L","M",
     "N","O","P","Q","R","S","T","U","V","W","X","Y","Z"}

Digits == {"0","1","2","3","4","5","6","7","8","9"}

\* U+212A KELVIN SIGN: an upper-case letter outside ASCII whose lower case is
\* the ASCII letter k.
Kelvin == "U+212A"

WhiteSpace == {" ", "\t", "\n", "\r"}

\* String.prototype.toLowerCase, one character at a time.
LowerOf ==
    [c \in UpperAlpha \cup {Kelvin} |->
        CASE c = "A" -> "a" [] c = "B" -> "b" [] c = "C" -> "c" [] c = "D" -> "d"
          [] c = "E" -> "e" [] c = "F" -> "f" [] c = "G" -> "g" [] c = "H" -> "h"
          [] c = "I" -> "i" [] c = "J" -> "j" [] c = "K" -> "k" [] c = "L" -> "l"
          [] c = "M" -> "m" [] c = "N" -> "n" [] c = "O" -> "o" [] c = "P" -> "p"
          [] c = "Q" -> "q" [] c = "R" -> "r" [] c = "S" -> "s" [] c = "T" -> "t"
          [] c = "U" -> "u" [] c = "V" -> "v" [] c = "W" -> "w" [] c = "X" -> "x"
          [] c = "Y" -> "y" [] c = "Z" -> "z" [] c = Kelvin -> "k"]

ToLowerChar(c) == IF c \in DOMAIN LowerOf THEN LowerOf[c] ELSE c

\* Canonicalize of a case-insensitive regular expression without the u flag:
\* ASCII letters fold together, no non-ASCII character folds into ASCII.
FoldChar(c) == IF c \in UpperAlpha THEN LowerOf[c] ELSE c

(***************************************************************************)
(* String helpers                                                          *)
(***************************************************************************)
Drop(s, n) == SubSeq(s, n + 1, Len(s))

Take(s, n) == SubSeq(s, 1, n)

RECURSIVE Join(_)
\* The concatenation of a sequence of strings.
Join(parts) ==
    IF parts = <<>> THEN <<>> ELSE Head(parts) \o Join(Tail(parts))

RECURSIVE JoinDots(_)
\* labels.join('.')
JoinDots(labels) ==
    IF Len(labels) = 1 THEN Head(labels)
    ELSE Head(labels) \o <<".">> \o JoinDots(Tail(labels))

\* The strings of length n made of the character c.
Repeat(c, n) == [i \in 1..n |-> c]

\* The position of the first character of s that lies in set, 0 when none does.
FirstIn(s, set) ==
    IF \E i \in 1..Len(s) : s[i] \in set
    THEN CHOOSE i \in 1..Len(s) : s[i] \in set /\ \A j \in 1..(i - 1) : s[j] \notin set
    ELSE 0

RECURSIVE SplitOn(_, _)
\* s.split(sep) for a one-character separator.
SplitOn(s, sep) ==
    LET i == FirstIn(s, {sep})
    IN  IF i = 0 THEN <<s>> ELSE <<Take(s, i - 1)>> \o SplitOn(Drop(s, i), sep)

(***************************************************************************)
(* extractAndValidateDomain, src/apps/api/src/utils/domainUtils.ts         *)
(***************************************************************************)
\* JavaScript null.
null == <<"null">>

\* The value of `result` before the validator has run.
Pending == <<"pending">>

\* input.trim()
RECURSIVE TrimStart(_)
TrimStart(s) ==
    IF s # <<>> /\ Head(s) \in WhiteSpace THEN TrimStart(Tail(s)) ELSE s

RECURSIVE TrimEnd(_)
TrimEnd(s) ==
    IF s # <<>> /\ s[Len(s)] \in WhiteSpace THEN TrimEnd(Take(s, Len(s) - 1)) ELSE s

Trim(s) == TrimEnd(TrimStart(s))

HttpPrefix == <<"h","t","t","p",":","/","/">>

HttpsPrefix == <<"h","t","t","p","s",":","/","/">>

StartsWithFold(s, p) ==
    /\ Len(s) >= Len(p)
    /\ \A i \in 1..Len(p) : FoldChar(s[i]) = p[i]

\* domain.replace(/^https?:\/\//i, '')
StripProtocol(s) ==
    IF StartsWithFold(s, HttpsPrefix) THEN Drop(s, Len(HttpsPrefix))
    ELSE IF StartsWithFold(s, HttpPrefix) THEN Drop(s, Len(HttpPrefix))
    ELSE s

TailStart == {"/", "?", "#"}

\* domain.split(/[/?#]/)[0]
BeforeTail(s) ==
    LET i == FirstIn(s, TailStart) IN IF i = 0 THEN s ELSE Take(s, i - 1)

\* domain.toLowerCase()
ToLowerCase(s) == [i \in 1..Len(s) |-> ToLowerChar(s[i])]

\* {1,63} of the first label of domainRegex.
MaxFirstLabel == 63

\* {2,} of the later labels of domainRegex.
MinLaterLabel == 2

\* [a-z0-9-] under the i flag.
FirstLabelChar(c) == FoldChar(c) \in LowerAlpha \cup Digits \cup {"-"}

\* [a-z] under the i flag.
LaterLabelChar(c) == FoldChar(c) \in LowerAlpha

\* The first label with the lookahead (?!-) left out.
FirstLabelOk_NoLookahead(l) ==
    /\ Len(l) >= 1
    /\ Len(l) <= MaxFirstLabel
    /\ \A i \in 1..Len(l) : FirstLabelChar(l[i])
    /\ l[Len(l)] # "-"

\* ^(?!-)[a-z0-9-]{1,63}(?<!-)
FirstLabelOk(l) ==
    /\ Len(l) >= 1
    /\ Len(l) <= MaxFirstLabel
    /\ \A i \in 1..Len(l) : FirstLabelChar(l[i])
    /\ l[1] # "-"
    /\ l[Len(l)] # "-"

\* \.[a-z]{2,}
LaterLabelOk(l) ==
    /\ Len(l) >= MinLaterLabel
    /\ \A i \in 1..Len(l) : LaterLabelChar(l[i])

\* domainRegex with (\.[a-z]{2,})* for (\.[a-z]{2,})+ : the dot no longer needed.
DomainRegexTest_TldOptional(s) ==
    LET labels == SplitOn(s, ".")
    IN  /\ FirstLabelOk(labels[1])
        /\ \A i \in 2..Len(labels) : LaterLabelOk(labels[i])

\* domainRegex.test(domain): the first label holds no dot, so it is the text
\* before the first dot, and every later dot starts a (\.[a-z]{2,}) group.
DomainRegexTest(s) ==
    LET labels == SplitOn(s, ".")
    IN  /\ Len(labels) >= 2
        /\ FirstLabelOk(labels[1])
        /\ \A i \in 2..Len(labels) : LaterLabelOk(labels[i])

extractAndValidateDomain(in) ==
    LET domain == ToLowerCase(BeforeTail(StripProtocol(Trim(in))))
    IN  IF ~DomainRegexTest(domain) THEN null ELSE domain

(***************************************************************************)
(* Values                                                                  *)
(***************************************************************************)
\* JavaScript undefined.
Undefined == <<"undefined">>

\* An optional argument: None when the caller leaves it out, Some(x) otherwise.
None == <<>>

Some(x) == <<x>>

\* The object spread ...(cond && {fields}).
Spread(cond, fields) == IF cond THEN fields ELSE [k \in {} |-> k]

(***************************************************************************)
(* Date.prototype.toISOString.  A time value t is kept as Day(t) and        *)
(* TimeWithinDay(t); `up` is process.uptime() at that instant.              *)
(***************************************************************************)
DigitSeq == <<"0","1","2","3","4","5","6","7","8","9">>

RECURSIVE Pow10(_)
Pow10(n) == IF n = 0 THEN 1 ELSE 10 * Pow10(n - 1)

\* n in decimal, padded with zeros to w digits.
Pad(n, w) == [i \in 1..w |-> DigitSeq[((n \div Pow10(w - i)) % 10) + 1]]

\* YearFromTime, MonthFromTime and DateFromTime of day number `day`.
CivilFromDays(day) ==
    LET z   == day + 719468
        era == z \div 146097
        doe == z - era * 146097
        yoe == (doe - doe \div 1460 + doe \div 36524 - doe \div 146096) \div 365
        doy == doe - (365 * yoe + yoe \div 4 - yoe \div 100)
        mp  == (5 * doy + 2) \div 153
        d   == doy - (153 * mp + 2) \div 5 + 1
        m   == IF mp < 10 THEN mp + 3 ELSE mp - 9
        y   == yoe + era * 400 + (IF m <= 2 THEN 1 ELSE 0)
    IN  [year |-> y, month |-> m, date |-> d]

toISOString(t) ==
    LET c == CivilFromDays(t.day)
        yyyy == IF c.year >= 0 /\ c.year <= 9999
                THEN Pad(c.year, 4)
                ELSE <<(IF c.year < 0 THEN "-" ELSE "+")>>
                        \o Pad(IF c.year < 0 THEN -c.year ELSE c.year, 6)
    IN  yyyy \o <<"-">> \o Pad(c.month, 2) \o <<"-">> \o Pad(c.date, 2) \o <<"T">>
          \o Pad(t.ms \div 3600000, 2) \o <<":">>
          \o Pad((t.ms \div 60000) % 60, 2) \o <<":">>
          \o Pad((t.ms \div 1000) % 60, 2) \o <<".">>
          \o Pad(t.ms % 1000, 3) \o <<"Z">>

\* The instants at which the model reads the clock:
\* 2000-02-29T01:02:03.004Z and 2025-12-31T23:59:59.999Z.
Clock ==
    { [day |-> 11016, ms |-> 3723004, up |-> 0],
      [day |-> 20453, ms |-> 86399999, up |-> 7] }

(***************************************************************************)
(* Response formatter, src/apps/api/src/utils/response.ts                  *)
(***************************************************************************)
NoResponse == [status |-> 0, type |-> "none", body |-> <<>>]

\* res.status(200).json({success: true, scanDate, data, ...(message && {message})})
sendSuccess(data, message, t) ==
    [status |-> 200,
     type   |-> "json",
     body   |-> [success |-> TRUE, scanDate |-> toISOString(t), data |-> data]
                  @@ Spread(message # None /\ message[1] # "", [message |-> message[1]])]

\* res.status(code || 400).json({success: false, scanDate, error, ...(code && {code})})
sendError(error, code, t) ==
    [status |-> IF code # None /\ code[1] # 0 THEN code[1] ELSE 400,
     type   |-> "json",
     body   |-> [success |-> FALSE, scanDate |-> toISOString(t), error |-> error]
                  @@ Spread(code # None /\ code[1] # 0, [code |-> code[1]])]

(***************************************************************************)
(* Lookup functions, the domain controller (src/unnamed/part_003)          *)
(***************************************************************************)
\* Each lookup with the external dependency it calls.
Lookups ==
    [getARecord |-> "dns", getAAAARecord |-> "dns", getMXRecord |-> "dns",
     getTXTRecord |-> "dns", getCNAMERecord |-> "dns", getNSRecord |-> "dns",
     getSOARecord |-> "dns", getDKIMRecord |-> "dns", getSPFRecord |-> "dns",
     getDMARCRecord |-> "dns", getTraceRedirects |-> "http",
     getScreenshot |-> "browser", getPerformanceMetrics |-> "lighthouse",
     getSslCertificateInfo |-> "tls", getHttpHeaders |-> "http",
     getSecurityHeaders |-> "http", getRobotsInfo |-> "http",
     getSitemapInfo |-> "http", getSubdomains |-> "http",
     getWhoisInfo |-> "exec", getDomainAge |-> "exec"]

\* How a call to each dependency can end.  "ok" is success; "location" is an
\* HTTP response carrying a Location header; "no_output" and "bad_json" are
\* a Lighthouse run that exits with status 0 and prints nothing, or prints
\* something that is no JSON.  Everything else is a failure of the dependency.
Outcomes ==
    [dns        |-> {"ok", "ENOTFOUND", "ETIMEOUT"},
     http       |-> {"ok", "HTTP_ERROR", "ECONNREFUSED"},
     browser    |-> {"ok", "launch_failed", "navigation_timeout", "capture_failed"},
     lighthouse |-> {"ok", "exit_nonzero", "no_output", "bad_json"},
     tls        |-> {"ok", "TLS_ERROR", "ECONNREFUSED"},
     exec       |-> {"ok", "exit_nonzero", "spawn_error"}]

Failed(outcome) == outcome \notin {"ok", "location", "no_output", "bad_json", "none"}

\* getTraceRedirects reads the Location header of each response it gets.
OutcomesOf(lookup) ==
    IF lookup = "getTraceRedirects"
    THEN Outcomes[Lookups[lookup]] \cup {"location"}
    ELSE Outcomes[Lookups[lookup]]

\* What the dependency hands back on success, as a value naming the call;
\* dns.resolveTxt hands back a list of records, each a list of chunks.
ExtValue(lookup, domain) ==
    IF lookup = "getTXTRecord"
    THEN << <<"txt(">> \o domain \o <<")">>, <<"v=spf1", "-all">> >>
    ELSE <<lookup, "(">> \o domain \o <<")">>

\* The Location header of the n-th response of a redirect chain.
Locations == <<"https://hop1", "https://hop2", "https://hop3", "https://hop4">>

\* The error each lookup throws.
LookupError ==
    [getARecord |-> "Failed to retrieve A record",
     getAAAARecord |-> "Failed to retrieve AAAA record",
     getMXRecord |-> "Failed to retrieve MX record",
     getTXTRecord |-> "Failed to retrieve TXT record",
     getCNAMERecord |-> "Failed to retrieve CNAME record",
     getNSRecord |-> "Failed to retrieve NS record",
     getSOARecord |-> "Failed to retrieve SOA record",
     getDKIMRecord |-> "DKIM lookup failed",
     getSPFRecord |-> "SPF lookup failed",
     getDMARCRecord |-> "DMARC lookup failed",
     getTraceRedirects |-> "Failed to retrieve trace redirects",
     getScreenshot |-> "Failed to take screenshot",
     getPerformanceMetrics |-> "",
     getSslCertificateInfo |-> "SSL certificate fetch failed",
     getHttpHeaders |-> "Failed to fetch HTTP headers",
     getSecurityHeaders |-> "Failed to fetch security headers",
     getRobotsInfo |-> "Failed to fetch robots.txt",
     getSitemapInfo |-> "Failed to fetch sitemap.xml",
     getSubdomains |-> "Failed to fetch subdomains",
     getWhoisInfo |-> "WHOIS lookup failed",
     getDomainAge |-> "domain age lookup failed"]

Returned(value) == [threw |-> FALSE, value |-> value, error |-> ""]

Threw(error) == [threw |-> TRUE, value |-> null, error |-> error]

\* try { ... return screenshot } finally { await browser.close(); throw ... }:
\* the throw of the finally block replaces the return value of the try block.
\* puppeteer.launch sits before the try block: its own error escapes as it is.
getScreenshot(domain, outcome) ==
    IF outcome = "launch_failed"
    THEN Threw("Failed to launch the browser process")
    ELSE Threw(LookupError["getScreenshot"])

\* resolve(null) on an exec error, on no output, on output without a JSON
\* object and on unparsable JSON; resolve(result) otherwise.  Never rejects.
getPerformanceMetrics(domain, outcome) ==
    IF outcome = "ok"
    THEN Returned(ExtValue("getPerformanceMetrics", domain))
    ELSE Returned(null)

\* while (url) { response = await axios.get(url); url = response.headers.location;
\*               if (url) redirects.push(url) } return redirects
\* once the last call has ended: `redirects` holds the hops followed so far.
getTraceRedirects(redirects, outcome) ==
    IF outcome = "ok"
    THEN Returned(redirects)
    ELSE Threw(LookupError["getTraceRedirects"])

\* try { return await <call> } catch { throw new Error(<fixed message>) }
Lookup(lookup, domain, redirects, outcome) ==
    CASE lookup = "getScreenshot" -> getScreenshot(domain, outcome)
      [] lookup = "getPerformanceMetrics" -> getPerformanceMetrics(domain, outcome)
      [] lookup = "getTraceRedirects" -> getTraceRedirects(redirects, outcome)
      [] OTHER ->
            IF outcome = "ok"
            THEN Returned(ExtValue(lookup, domain))
            ELSE Threw(LookupError[lookup])

(***************************************************************************)
(* Routes                                                                  *)
(***************************************************************************)
\* domainRoute.get(path, handler): the lookup each handler awaits and the
\* message of its catch block (src/unnamed/part_001).
domainRoute ==
    [p \in {"/a", "/aaaa", "/mx", "/txt", "/cname", "/ns", "/soa", "/redirects",
            "/screenshot", "/performance", "/ssl", "/http-headers",
            "/security-headers", "/spf", "/dkim", "/dmarc", "/robots", "/sitemap",
            "/subdomains", "/whois", "/age"} |->
        CASE p = "/a" -> [lookup |-> "getARecord", error |-> "Failed to retrieve A record"]
          [] p = "/aaaa" -> [lookup |-> "getAAAARecord", error |-> "Failed to retrieve AAAA record"]
          [] p = "/mx" -> [lookup |-> "getMXRecord", error |-> "Failed to retrieve MX record"]
          [] p = "/txt" -> [lookup |-> "getTXTRecord", error |-> "Failed to retrieve TXT record"]
          [] p = "/cname" -> [lookup |-> "getCNAMERecord", error |-> "Failed to retrieve CNAME record"]
          [] p = "/ns" -> [lookup |-> "getNSRecord", error |-> "Failed to retrieve NS record"]
          [] p = "/soa" -> [lookup |-> "getSOARecord", error |-> "Failed to retrieve SOA record"]
          [] p = "/redirects" -> [lookup |-> "getTraceRedirects", error |-> "Failed to retrieve trace redirects"]
          [] p = "/screenshot" -> [lookup |-> "getScreenshot", error |-> "Failed to take screenshot"]
          [] p = "/performance" -> [lookup |-> "getPerformanceMetrics", error |-> "Failed to retrieve performance metrics"]
          [] p = "/ssl" -> [lookup |-> "getSslCertificateInfo", error |-> "Failed to retrieve SSL certificate info"]
          [] p = "/http-headers" -> [lookup |-> "getHttpHeaders", error |-> "Failed to retrieve HTTP headers"]
          [] p = "/security-headers" -> [lookup |-> "getSecurityHeaders", error |-> "Failed to retrieve security headers"]
          [] p = "/spf" -> [lookup |-> "getSPFRecord", error |-> "Failed to retrieve SPF record"]
          [] p = "/dkim" -> [lookup |-> "getDKIMRecord", error |-> "Failed to retrieve DKIM record"]
          [] p = "/dmarc" -> [lookup |-> "getDMARCRecord", error |-> "Failed to retrieve DMARC record"]
          [] p = "/robots" -> [lookup |-> "getRobotsInfo", error |-> "Failed to retrieve robots.txt"]
          [] p = "/sitemap" -> [lookup |-> "getSitemapInfo", error |-> "Failed to retrieve sitemap.xml"]
          [] p = "/subdomains" -> [lookup |-> "getSubdomains", error |-> "Failed to retrieve subdomains"]
          [] p = "/whois" -> [lookup |-> "getWhoisInfo", error |-> "Failed to retrieve WHOIS information"]
          [] p = "/age" -> [lookup |-> "getDomainAge", error |-> "Failed to retrieve domain age information"]]

DomainPaths == DOMAIN domainRoute

\* healthRoute.get('/_health', ...)
HealthPath == "/_health"

\* app.use(healthRoute); app.use(domainRoute), in a variant that mounts the
\* domain router first.
setupRoutes_DomainFirst == <<"domainRoute", "healthRoute">>

\* app.use(healthRoute); app.use(domainRoute)
setupRoutes == <<"healthRoute", "domainRoute">>

\* The object getHealth returns.
getHealth(t) == [message |-> "OK", timestamp |-> <<t.day, t.ms>>, uptime |-> t.up]

\* Express with no error-handling middleware and no catch-all route: an
\* exception thrown by a middleware is answered with an HTML page of status
\* 500, a path no router handles with an HTML page of status 404.
ExpressError == [status |-> 500, type |-> "html", body |-> <<>>]

ExpressNotFound == [status |-> 404, type |-> "html", body |-> <<>>]

(***************************************************************************)
(* Requests                                                                *)
(***************************************************************************)
\* The requests the model follows at once.
NumRequests == 1

Slots == 1..NumRequests

\* The Location headers getTraceRedirects is made to follow at most.
MaxHops == 2

\* req.query.domain: absent, a string, or an array (a repeated parameter).
Absent == [shape |-> "absent", value |-> <<>>]

Str(s) == [shape |-> "string", value |-> s]

Arr(ss) == [shape |-> "array", value |-> ss]

Queries ==
    { Absent,
      Str(<<>>),
      Str(<<" ", "\t">>),
      Str(<<"n","o","d","o","t">>),
      Str(<<" ","h","t","t","p",":","/","/","E","x","a","m","p","l","e",".","C","O","M",
            "/","p","a","t","h"," ">>),
      Arr(<< <<"a",".","c","o">>, <<"b",".","c","o">> >>) }

\* Every path with a route and one, "/health", with none.
Paths == DomainPaths \cup {HealthPath, "/health"}

IdleSlot ==
    [pc        |-> "idle",       \* idle, routing, handler, awaiting, done
     path      |-> "",
     query     |-> Absent,
     layer     |-> 0,            \* the router of the app the request is at
     domain    |-> Undefined,    \* req.domain
     arg       |-> Undefined,    \* the argument of the lookup
     calls     |-> 0,            \* calls made to the external dependency
     ext       |-> "none",       \* how the last of them ended
     redirects |-> <<>>,         \* getTraceRedirects: the hops followed
     sent      |-> 0,            \* responses sent
     res       |-> NoResponse]   \* the last response sent

Respond(slot, response) ==
    [slot EXCEPT !.pc = "done", !.res = response, !.sent = slot.sent + 1]

\* A request arrives.
Receive(i, path, query) ==
    /\ reqs[i].pc = "idle"
    /\ reqs' = [reqs EXCEPT ![i] =
                  [IdleSlot EXCEPT !.pc = "routing", !.path = path,
                                   !.query = query, !.layer = 1]]
    /\ UNCHANGED <<input, result, cluster>>

AtRouter(i, router) ==
    /\ reqs[i].pc = "routing"
    /\ reqs[i].layer <= Len(setupRoutes)
    /\ setupRoutes[reqs[i].layer] = router

\* t1 is read no later than t2.
NotAfter(t1, t2) == t1.day < t2.day \/ (t1.day = t2.day /\ t1.ms <= t2.ms)

\* healthRoute: GET /_health answers with getHealth(); any other path is
\* passed on to the next router.
healthRoute(i) ==
    /\ AtRouter(i, "healthRoute")
    /\ IF reqs[i].path = HealthPath
       THEN \E t1 \in Clock, t2 \in Clock :
              /\ NotAfter(t1, t2)
              /\ reqs' = [reqs EXCEPT ![i] =
                            Respond(@, sendSuccess(getHealth(t1), None, t2))]
       ELSE reqs' = [reqs EXCEPT ![i].layer = @ + 1]
    /\ UNCHANGED <<input, result, cluster>>

\* domainQueryMiddleware with no trim() of the raw value.
domainQueryMiddleware_NoTrim(query) ==
    IF query.shape = "array"
    THEN [does |-> "throw", error |-> "TypeError", domain |-> Undefined]
    ELSE LET rawDomain == IF query.shape = "absent" THEN Undefined ELSE query.value
         IN  IF rawDomain \in {Undefined, <<>>}
             THEN [does |-> "sendError", error |-> "Missing domain in query",
                   domain |-> Undefined]
             ELSE LET domain == extractAndValidateDomain(rawDomain)
                  IN  IF domain \in {null, <<>>}
                      THEN [does |-> "sendError", error |-> "Invalid domain name",
                            domain |-> Undefined]
                      ELSE [does |-> "next", error |-> "", domain |-> domain]

\* domainQueryMiddleware with the return before sendError(...'Invalid domain
\* name'...) left out: the error is sent and the request goes on.
domainQueryMiddleware_NoReject(query) ==
    IF query.shape = "array"
    THEN [does |-> "throw", error |-> "TypeError", domain |-> Undefined]
    ELSE LET rawDomain == IF query.shape = "absent" THEN Undefined ELSE Trim(query.value)
         IN  IF rawDomain \in {Undefined, <<>>}
             THEN [does |-> "sendError", error |-> "Missing domain in query",
                   domain |-> Undefined]
             ELSE [does |-> "next", error |-> "",
                   domain |-> extractAndValidateDomain(rawDomain)]

\* domainQueryMiddleware: what it does with req.query.domain.
\*   (req.query.domain as string)?.trim() throws a TypeError on an array;
\*   !rawDomain holds of undefined and of the empty string;
\*   !domain holds of null.
domainQueryMiddleware(query) ==
    IF query.shape = "array"
    THEN [does |-> "throw", error |-> "TypeError", domain |-> Undefined]
    ELSE LET rawDomain == IF query.shape = "absent" THEN Undefined ELSE Trim(query.value)
         IN  IF rawDomain \in {Undefined, <<>>}
             THEN [does |-> "sendError", error |-> "Missing domain in query",
                   domain |-> Undefined]
             ELSE LET domain == extractAndValidateDomain(rawDomain)
                  IN  IF domain \in {null, <<>>}
                      THEN [does |-> "sendError", error |-> "Invalid domain name",
                            domain |-> Undefined]
                      ELSE [does |-> "next", error |-> "", domain |-> domain]

\* domainRoute.use(domainQueryMiddleware), then the route of the path: the
\* middleware answers 400 itself, or sets req.domain and calls next(); an
\* exception it throws is answered by Express; a path with no route is
\* passed on to the next router.
domainRouter(i) ==
    /\ AtRouter(i, "domainRoute")
    /\ LET m == domainQueryMiddleware(reqs[i].query)
       IN  CASE m.does = "throw" ->
                  reqs' = [reqs EXCEPT ![i] = Respond(@, ExpressError)]
             [] m.does = "sendError" ->
                  \E t \in Clock :
                     reqs' = [reqs EXCEPT ![i] = Respond(@, sendError(m.error, Some(400), t))]
             [] m.does = "next" ->
                  reqs' = [reqs EXCEPT
                             ![i].domain = m.domain,
                             ![i].pc = IF reqs[i].path \in DomainPaths
                                       THEN "handler" ELSE "routing",
                             ![i].layer = IF reqs[i].path \in DomainPaths
                                          THEN @ ELSE @ + 1]
    /\ UNCHANGED <<input, result, cluster>>

\* A route handler that reads the domain from a variable of the module that
\* the middleware of every request writes, in place of req.domain.
RouteHandler_SharedDomain(i) ==
    /\ reqs[i].pc = "handler"
    /\ \E j \in DOMAIN reqs :
          /\ reqs[j].domain # Undefined
          /\ reqs' = [reqs EXCEPT ![i].pc = "awaiting",
                                  ![i].arg = reqs[j].domain,
                                  ![i].calls = @ + 1]
    /\ UNCHANGED <<input, result, cluster>>

\* A route handler that hands req.query.domain to the lookup.
RouteHandler_RawQuery(i) ==
    /\ reqs[i].pc = "handler"
    /\ reqs' = [reqs EXCEPT ![i].pc = "awaiting",
                            ![i].arg = reqs[i].query.value,
                            ![i].calls = @ + 1]
    /\ UNCHANGED <<input, result, cluster>>

\* A route handler up to its await: it reads req.domain and calls the lookup,
\* which calls its external dependency.
RouteHandler(i) ==
    /\ reqs[i].pc = "handler"
    /\ reqs' = [reqs EXCEPT ![i].pc = "awaiting",
                            ![i].arg = reqs[i].domain,
                            ![i].calls = @ + 1]
    /\ UNCHANGED <<input, result, cluster>>

\* records.flat() of the /txt handler.
Flat(records) == Join(records)

\* The call to the external dependency ends with `outcome` and the handler
\* runs on: getTraceRedirects calls again while responses carry a Location
\* header; otherwise the lookup returns or throws and the handler answers
\* with sendSuccess or, from its catch block, with sendError.
ExternalReturns(i, outcome) ==
    LET r      == reqs[i]
        route  == domainRoute[r.path]
    IN  /\ r.pc = "awaiting"
        /\ outcome \in OutcomesOf(route.lookup)
        /\ IF outcome = "location"
           THEN /\ Len(r.redirects) < MaxHops
                /\ reqs' = [reqs EXCEPT
                              ![i].redirects = Append(@, Locations[Len(@) + 1]),
                              ![i].ext = outcome,
                              ![i].calls = @ + 1]
           ELSE LET got == Lookup(route.lookup, r.arg, r.redirects, outcome)
                    response == IF r.path = "/txt" /\ ~got.threw
                                THEN Flat(got.value) ELSE got.value
                IN  \E t \in Clock :
                      reqs' = [reqs EXCEPT ![i] =
                        Respond([@ EXCEPT !.ext = outcome],
                                IF got.threw
                                THEN sendError(route.error, Some(500), t)
                                ELSE sendSuccess([domain |-> r.domain, response |-> response],
                                                 None, t))]
        /\ UNCHANGED <<input, result, cluster>>

\* No router handled the path.
FinalHandler(i) ==
    /\ reqs[i].pc = "routing"
    /\ reqs[i].layer > Len(setupRoutes)
    /\ reqs' = [reqs EXCEPT ![i] = Respond(@, ExpressNotFound)]
    /\ UNCHANGED <<input, result, cluster>>

(***************************************************************************)
(* Process entry point and cluster supervisor                              *)
(***************************************************************************)
\* os.cpus().length is at most MaxCPUs.
MaxCPUs == 2

\* At most MaxExits workers die in a behaviour.
MaxExits == 2

\* The process before its entry point has run.  A worker is "online" from its
\* fork on, "exited" once its process has died and the primary has its 'exit'
\* event to handle, "reaped" once the primary has handled that event.
ClusterIdle ==
    [mode    |-> "development",   \* process.env.NODE_ENV
     cpus    |-> 1,               \* os.cpus().length
     started |-> FALSE,           \* the primary's entry point has run
     servers |-> 0,               \* servers started by the primary
     workers |-> <<>>]            \* every worker forked so far

\* cluster.fork()
Fork(workers) == Append(workers, [state |-> "online", booted |-> FALSE, servers |-> 0])

RECURSIVE ForkTimes(_, _)
\* for (let i = 0; i < totalCPUs; i++) cluster.fork()
ForkTimes(workers, n) == IF n = 0 THEN workers ELSE ForkTimes(Fork(workers), n - 1)

\* An entry point that calls setupCluster(createServer) whatever NODE_ENV is.
Start_AlwaysCluster ==
    /\ ~cluster.started
    /\ cluster' = [cluster EXCEPT !.started = TRUE,
                                  !.workers = ForkTimes(@, cluster.cpus)]
    /\ UNCHANGED <<input, result, reqs>>

\* The entry point of the primary process: setupCluster(createServer) when
\* NODE_ENV is 'production', which forks totalCPUs workers and registers the
\* 'exit' handler; createServer() otherwise.
Start ==
    /\ ~cluster.started
    /\ cluster' =
         IF cluster.mode = "production"
         THEN [cluster EXCEPT !.started = TRUE,
                              !.workers = ForkTimes(@, cluster.cpus)]
         ELSE [cluster EXCEPT !.started = TRUE, !.servers = @ + 1]
    /\ UNCHANGED <<input, result, reqs>>

\* The entry point of a worker process: cluster.isPrimary is false, so
\* setupCluster calls startServer().
WorkerStart(w) ==
    /\ w \in 1..Len(cluster.workers)
    /\ cluster.workers[w].state = "online"
    /\ ~cluster.workers[w].booted
    /\ cluster' = [cluster EXCEPT !.workers[w].booted = TRUE,
                                  !.workers[w].servers = @ + 1]
    /\ UNCHANGED <<input, result, reqs>>

Gone(workers) == {w \in 1..Len(workers) : workers[w].state # "online"}

\* A worker process dies.
WorkerExit(w) ==
    /\ w \in 1..Len(cluster.workers)
    /\ cluster.workers[w].state = "online"
    /\ Cardinality(Gone(cluster.workers)) < MaxExits
    /\ cluster' = [cluster EXCEPT !.workers[w].state = "exited"]
    /\ UNCHANGED <<input, result, reqs>>

\* An 'exit' handler that only logs.
OnExit_NoFork(w) ==
    /\ w \in 1..Len(cluster.workers)
    /\ cluster.workers[w].state = "exited"
    /\ cluster' = [cluster EXCEPT !.workers[w].state = "reaped"]
    /\ UNCHANGED <<input, result, reqs>>

\* cluster.on("exit", (worker) => { ...; cluster.fork() })
OnExit(w) ==
    /\ w \in 1..Len(cluster.workers)
    /\ cluster.workers[w].state = "exited"
    /\ cluster' = [cluster EXCEPT !.workers = Fork([@ EXCEPT ![w].state = "reaped"])]
    /\ UNCHANGED <<input, result, reqs>>

WorkerIds == 1..(MaxCPUs + MaxExits)

InitCluster ==
    /\ input = <<>>
    /\ result = Pending
    /\ reqs = [i \in Slots |-> IdleSlot]
    /\ \E mode \in {"production", "development"}, n \in 1..MaxCPUs :
          cluster = [ClusterIdle EXCEPT !.mode = mode, !.cpus = n]

NextCluster ==
    \/ Start
    \/ \E w \in WorkerIds : WorkerStart(w)
    \/ \E w \in WorkerIds : WorkerExit(w)
    \/ \E w \in WorkerIds : OnExit(w)

\* The entry point runs, and the primary's event loop hands every 'exit'
\* event to its handler.
SpecCluster ==
    /\ InitCluster
    /\ [][NextCluster]_vars
    /\ WF_vars(Start)
    /\ \A w \in WorkerIds : WF_vars(OnExit(w))

Init ==
    /\ input = <<>>
    /\ result = Pending
    /\ reqs = [i \in Slots |-> IdleSlot]
    /\ cluster = ClusterIdle

Next ==
    \E i \in Slots :
        \/ \E path \in Paths, query \in Queries : Receive(i, path, query)
        \/ healthRoute(i)
        \/ domainRouter(i)
        \/ RouteHandler(i)
        \/ \E outcome \in UNION {Outcomes[d] : d \in DOMAIN Outcomes} \cup {"location"} :
              ExternalReturns(i, outcome)
        \/ FinalHandler(i)

Spec == Init /\ [][Next]_vars

(***************************************************************************)
(* Requests in flight together                                             *)
(***************************************************************************)
\* The requests one process has in flight at once.
MaxInFlight == 2

InFlightSlots == 1..MaxInFlight

\* One endpoint and a path with no route.
InFlightPaths == {"/a", "/health"}

InFlightQueries ==
    { Absent, Str(<<"a",".","c","o">>), Str(<<"h","t","t","p",":","/","/","B",".","c","o">>) }

InFlightOutcomes == Outcomes["dns"]

InitInFlight ==
    /\ input = <<>>
    /\ result = Pending
    /\ reqs = [i \in InFlightSlots |-> IdleSlot]
    /\ cluster = ClusterIdle

\* The event loop runs one callback at a time, of any request, to its end or
\* to its next await.
NextInFlight ==
    \E i \in InFlightSlots :
        \/ \E path \in InFlightPaths, query \in InFlightQueries : Receive(i, path, query)
        \/ healthRoute(i)
        \/ domainRouter(i)
        \/ RouteHandler(i)
        \/ \E outcome \in InFlightOutcomes : ExternalReturns(i, outcome)
        \/ FinalHandler(i)

SpecInFlight == InitInFlight /\ [][NextInFlight]_vars

(***************************************************************************)
(* getTraceRedirects on its own, against any remote server                 *)
(***************************************************************************)
\* The locals of a call of getTraceRedirects(input): `url`, and `redirects`
\* kept to its first MaxHops entries (the loop never reads it).
TraceIdle == [pc |-> "idle", url |-> <<>>, redirects |-> <<>>]

TraceDomains == { <<"a",".","c","o">>, <<"e","x","a","m","p","l","e",".","c","o","m">> }

\* The URLs a server may name in a Location header.
TraceLocations == { <<Locations[n]>> : n \in 1..Len(Locations) }

\* How the promise of an async function settles: with a value or an error.
Settled(got) == IF got.threw THEN <<"rejected", got.error>> ELSE <<"fulfilled", got.value>>

InitTrace ==
    /\ input \in TraceDomains
    /\ result = Pending
    /\ reqs = TraceIdle
    /\ cluster = ClusterIdle

\* let redirects = []; let url = `https://${domain}`; while (url) { axios.get(url)
TraceCall ==
    /\ reqs.pc = "idle"
    /\ reqs' = [pc |-> "awaiting", url |-> HttpsPrefix \o input, redirects |-> <<>>]
    /\ UNCHANGED <<input, result, cluster>>

\* await axios.get(url, {maxRedirects: 10}) ends with a response that carries
\* the header Location: url = location; redirects.push(url); the loop goes round.
TraceLocation(location) ==
    /\ reqs.pc = "awaiting"
    /\ reqs' = [reqs EXCEPT !.url = location,
                            !.redirects = IF Len(@) < MaxHops THEN Append(@, location) ELSE @]
    /\ UNCHANGED <<input, result, cluster>>

\* await axios.get(...) ends with a response without that header (url is
\* undefined: the loop ends, redirects is returned) or with an error, one
\* of axios following more than 10 redirects of status 3xx included (the
\* catch block throws).
TraceEnd(outcome) ==
    /\ reqs.pc = "awaiting"
    /\ outcome \in Outcomes["http"]
    /\ reqs' = [reqs EXCEPT !.pc = "done"]
    /\ result' = Settled(getTraceRedirects(reqs.redirects, outcome))
    /\ UNCHANGED <<input, cluster>>

\* The GET in flight comes to an end.
TraceGetEnds ==
    \/ \E location \in TraceLocations : TraceLocation(location)
    \/ \E outcome \in Outcomes["http"] : TraceEnd(outcome)

NextTrace == TraceCall \/ TraceGetEnds

\* The function is called, and every GET it awaits ends.
SpecTrace ==
    /\ InitTrace
    /\ [][NextTrace]_vars
    /\ WF_vars(TraceCall)
    /\ WF_vars(TraceGetEnds)

(***************************************************************************)
(* The lookup functions on their own: one call per behaviour               *)
(***************************************************************************)
LookupIdle == [pc |-> "idle", lookup |-> "", outcome |-> "none"]

\* A lookup function is called with the domain `input`.
LookupCall(lookup) ==
    /\ reqs.pc = "idle"
    /\ reqs' = [reqs EXCEPT !.pc = "awaiting", !.lookup = lookup]
    /\ UNCHANGED <<input, result, cluster>>

\* Its external call ends, and its promise settles.
LookupSettles(outcome) ==
    /\ reqs.pc = "awaiting"
    /\ outcome \in Outcomes[Lookups[reqs.lookup]]
    /\ reqs' = [reqs EXCEPT !.pc = "done", !.outcome = outcome]
    /\ result' = Settled(Lookup(reqs.lookup, input, <<>>, outcome))
    /\ UNCHANGED <<input, cluster>>

InitLookups ==
    /\ input \in TraceDomains
    /\ result = Pending
    /\ reqs = LookupIdle
    /\ cluster = ClusterIdle

NextLookups ==
    \/ \E lookup \in DOMAIN Lookups : LookupCall(lookup)
    \/ \E outcome \in UNION {Outcomes[d] : d \in DOMAIN Outcomes} : LookupSettles(outcome)

SpecLookups == InitLookups /\ [][NextLookups]_vars

(***************************************************************************)
(* The exec callback of getPerformanceMetrics, src/unnamed/part_003        *)
(***************************************************************************)
\* stdout is read as a sequence of tokens: the braces, the comma, a key with
\* its colon, a scalar value, and text that is no JSON.
JsonTokens == {"{", "}", ",", "k:", "1", "x"}

\* A parsed object is <<"obj">> (no key) or <<"obj", v>> (the value of key k);
\* a parsed scalar is <<"1">>.
EmptyObject == <<"obj">>

ParseFailed == [ok |-> FALSE, value |-> <<>>, rest |-> <<>>]

Parsed(value, rest) == [ok |-> TRUE, value |-> value, rest |-> rest]

RECURSIVE ParseValue(_)
RECURSIVE ParseMembers(_, _)
\* The members of an object from a key on, up to the closing brace; a key
\* that comes again replaces the value it had.
ParseMembers(s, obj) ==
    IF Len(s) < 2 \/ s[1] # "k:" THEN ParseFailed
    ELSE LET v == ParseValue(Tail(s))
         IN  IF ~v.ok \/ v.rest = <<>> THEN ParseFailed
             ELSE CASE v.rest[1] = "}" -> Parsed(<<"obj", v.value>>, Tail(v.rest))
                    [] v.rest[1] = "," -> ParseMembers(Tail(v.rest), <<"obj", v.value>>)
                    [] OTHER -> ParseFailed

\* One JSON value at the head of s.
ParseValue(s) ==
    IF s = <<>> THEN ParseFailed
    ELSE CASE s[1] = "1" -> Parsed(<<"1">>, Tail(s))
           [] s[1] = "{" ->
                IF Len(s) >= 2 /\ s[2] = "}"
                THEN Parsed(EmptyObject, Drop(s, 2))
                ELSE ParseMembers(Tail(s), EmptyObject)
           [] OTHER -> ParseFailed

\* JSON.parse(s): the value s spells, or a SyntaxError.
JSONparse(s) ==
    LET v == ParseValue(s)
    IN  IF v.ok /\ v.rest = <<>> THEN Returned(v.value) ELSE Threw("SyntaxError")

\* s.indexOf(c) and s.lastIndexOf(c), counting from 1, 0 for JavaScript's -1.
indexOf(s, c) == FirstIn(s, {c})

lastIndexOf(s, c) ==
    IF \E i \in 1..Len(s) : s[i] = c
    THEN CHOOSE i \in 1..Len(s) : s[i] = c /\ \A j \in (i + 1)..Len(s) : s[j] # c
    ELSE 0

\* The callback with the slice ending at the first closing brace.
LighthouseCallback_FirstClosingBrace(error, stdout) ==
    IF error THEN null
    ELSE IF stdout = <<>> THEN null
    ELSE LET firstBrace == indexOf(stdout, "{")
             lastBrace  == indexOf(stdout, "}")
         IN  IF firstBrace = 0 \/ lastBrace = 0 THEN null
             ELSE LET parsed == JSONparse(SubSeq(stdout, firstBrace, lastBrace))
                  IN  IF parsed.threw THEN null ELSE parsed.value

\* (error, stdout, stderr) => { ... }: the value the promise is resolved with.
LighthouseCallback(error, stdout) ==
    IF error THEN null
    ELSE IF stdout = <<>> THEN null
    ELSE LET firstBrace == indexOf(stdout, "{")
             lastBrace  == lastIndexOf(stdout, "}")
         IN  IF firstBrace = 0 \/ lastBrace = 0 THEN null
             ELSE LET parsed == JSONparse(SubSeq(stdout, firstBrace, lastBrace))
                  IN  IF parsed.threw THEN null ELSE parsed.value

\* stdout holds at most MaxOutLen tokens.
MaxOutLen == 5

LighthouseOutputs == UNION {[1..n -> JsonTokens] : n \in 0..MaxOutLen}

LighthouseIdle == [pc |-> "idle", error |-> FALSE]

\* getPerformanceMetrics(domain): exec(`npx lighthouse ...`, callback)
LighthouseExec ==
    /\ reqs.pc = "idle"
    /\ reqs' = [reqs EXCEPT !.pc = "awaiting"]
    /\ UNCHANGED <<input, result, cluster>>

\* The command ends, with an error or without, and exec calls the callback
\* with what the command has written to stdout (`input`).
LighthouseExits(error) ==
    /\ reqs.pc = "awaiting"
    /\ reqs' = [pc |-> "done", error |-> error]
    /\ result' = <<"fulfilled", LighthouseCallback(error, input)>>
    /\ UNCHANGED <<input, cluster>>

InitLighthouse ==
    /\ input \in LighthouseOutputs
    /\ result = Pending
    /\ reqs = LighthouseIdle
    /\ cluster = ClusterIdle

NextLighthouse == LighthouseExec \/ \E error \in BOOLEAN : LighthouseExits(error)

SpecLighthouse == InitLighthouse /\ [][NextLighthouse]_vars

(***************************************************************************)
(* parseWhois, src/apps/api/src/utils/domainUtils.ts                       *)
(***************************************************************************)
\* A word that names a property every object inherits from Object.prototype,
\* as one character of the text.
Constructor == "constructor"

\* The keys `result[key]` finds on the empty object literal {}.
ObjectPrototype == { <<Constructor>> }

\* What result['constructor'] is on an object with no such key of its own.
ObjectFunction == <<"[Function: Object]">>

\* An object is a function from its own keys to their values; a value is
\* Str(s), a string, or Arr(ss), an array.
EmptyRecord == <<>>

\* The body of the loop of parseWhois for one line.
ParseWhoisLine(obj, line) ==
    LET idx == indexOf(line, ":")
    IN  IF idx > 1
        THEN LET key   == Trim(Take(line, idx - 1))
                 value == Trim(Drop(line, idx))
             IN  IF key # <<>> /\ value # <<>>
                 THEN IF key \in DOMAIN obj
                      THEN IF obj[key].shape = "array"
                           THEN (key :> Arr(Append(obj[key].value, value))) @@ obj
                           ELSE (key :> Arr(<<obj[key].value, value>>)) @@ obj
                      ELSE IF key \in ObjectPrototype
                           THEN (key :> Arr(<<ObjectFunction, value>>)) @@ obj
                           ELSE (key :> Str(value)) @@ obj
                 ELSE obj
        ELSE obj

RECURSIVE ParseWhoisLines(_, _)
\* for (const line of lines) { ... }
ParseWhoisLines(obj, lines) ==
    IF lines = <<>> THEN obj
    ELSE ParseWhoisLines(ParseWhoisLine(obj, Head(lines)), Tail(lines))

\* raw.split('\n'), the loop over the lines, return result.
parseWhois(raw) == ParseWhoisLines(EmptyRecord, SplitOn(raw, "\n"))

\* The raw text holds at most MaxLines lines.
MaxLines == 3

WhoisLines ==
    { <<"a",":","b">>, <<"a",":"," ","c">>, <<" ","a"," ",":","b"," ">>, <<"b",":","a">>,
      <<"a">>, <<":","b">>, <<"a",":">>, <<" ",":"," ","b">>, <<"a",":","b",":","c">>,
      <<Constructor,":","a">>, <<>> }

RECURSIVE JoinLines(_)
\* lines.join('\n')
JoinLines(lines) ==
    IF lines = <<>> THEN <<>>
    ELSE IF Len(lines) = 1 THEN lines[1]
    ELSE lines[1] \o <<"\n">> \o JoinLines(Tail(lines))

WhoisInputs == UNION {{JoinLines(ls) : ls \in [1..n -> WhoisLines]} : n \in 1..MaxLines}

InitWhois ==
    /\ input \in WhoisInputs
    /\ result = Pending
    /\ reqs = [i \in Slots |-> IdleSlot]
    /\ cluster = ClusterIdle

\* parseWhois(stdout) of getWhoisInfo.
ParseWhois ==
    /\ result = Pending
    /\ result' = <<"returned", parseWhois(input)>>
    /\ UNCHANGED <<input, reqs, cluster>>

NextWhois == ParseWhois

SpecWhois == InitWhois /\ [][NextWhois]_vars

(***************************************************************************)
(* Inputs of the validator runs                                            *)
(***************************************************************************)
\* Every string of at most MaxShortLen characters of ShortAlphabet is tried.
MaxShortLen == 4

ShortAlphabet == {"a", "B", "1", "-", ".", " ", "/", "_", Kelvin}

ShortStrings == UNION {[1..n -> ShortAlphabet] : n \in 0..MaxShortLen}

\* Longer inputs are put together from labels: hosts of at most MaxLabels labels.
MaxLabels == 3

LabelPool ==
    { <<"E","x","a","m","p","l","e">>, <<"C","O","M">>, <<"c","o">>, <<"a">>,
      <<"b","1">>, <<"x","-","y">>, <<"-","a">>, <<"a","-">>,
      Repeat("a", MaxFirstLabel), Repeat("a", MaxFirstLabel + 1) }

HostPool == UNION {{JoinDots(ls) : ls \in [1..n -> LabelPool]} : n \in 1..MaxLabels}

\* What surrounds the host: <<leading, protocol, tail, trailing>>.
Affixes ==
    { << <<>>, <<>>, <<>>, <<>> >>,
      << <<" ">>, HttpPrefix, <<"/","p","a","t","h">>, <<" ">> >>,
      << <<>>, HttpPrefix, <<"/","p","a","t","h">>, <<>> >>,
      << <<>>, <<"H","T","T","P","S",":","/","/">>, <<>>, <<>> >>,
      << <<"\t">>, <<"h","T","t","P",":","/","/">>, <<"?","q","=","1">>, <<"\n">> >>,
      << <<>>, HttpsPrefix, <<"#","f">>, <<>> >>,
      << <<>>, <<>>, <<"/","a","?","b","#","c",".","d">>, <<" ", " ">> >>,
      << <<>>, <<"f","t","p",":","/","/">>, <<>>, <<>> >>,
      << <<>>, HttpPrefix \o HttpPrefix, <<>>, <<>> >>,
      << <<>>, <<>>, <<":","8","0">>, <<>> >>,
      << <<" ">>, <<>>, <<>>, <<"\n">> >>,
      << <<>>, HttpPrefix \o <<" ">>, <<>>, <<>> >> }

Wrap(affix, host) == affix[1] \o affix[2] \o host \o affix[3] \o affix[4]

Inputs == ShortStrings \cup {Wrap(a, h) : a \in Affixes, h \in HostPool}

(***************************************************************************)
(* The validator on its own: one call per behaviour                        *)
(***************************************************************************)
ReqsIdle == [i \in Slots |-> IdleSlot]

InitValidator ==
    /\ input \in Inputs
    /\ result = Pending
    /\ reqs = ReqsIdle
    /\ cluster = ClusterIdle

Validate ==
    /\ result = Pending
    /\ result' = extractAndValidateDomain(input)
    /\ UNCHANGED <<input, reqs, cluster>>

NextValidator == Validate

SpecValidator == InitValidator /\ [][NextValidator]_vars

(***************************************************************************)
(* Claims about the validator                                              *)
(***************************************************************************)
Validated == result # Pending

AsciiLetters == LowerAlpha \cup UpperAlpha

\* RFC 952/1123 host-name syntax: dot-separated labels of 1 to 63 letters,
\* digits and hyphens, none beginning or ending with a hyphen.
RfcLabel(l) ==
    /\ Len(l) >= 1
    /\ Len(l) <= 63
    /\ \A i \in 1..Len(l) : l[i] \in AsciiLetters \cup Digits \cup {"-"}
    /\ l[1] # "-"
    /\ l[Len(l)] # "-"

RfcHost(h) == \A i \in 1..Len(SplitOn(h, ".")) : RfcLabel(SplitOn(h, ".")[i])

\* A host name with a domain: at least two labels, the last one (the top-level
\* domain) alphabetic and of two letters or more.
HostName(h) ==
    LET labels == SplitOn(h, ".")
    IN  /\ RfcHost(h)
        /\ Len(labels) >= 2
        /\ Len(labels[Len(labels)]) >= 2
        /\ \A i \in 1..Len(labels[Len(labels)]) : labels[Len(labels)][i] \in AsciiLetters

AllWhite(s) == \A i \in 1..Len(s) : s[i] \in WhiteSpace

\* The hosts h for which s reads: whitespace, an optional http:// or https://
\* in any letter case, h, an optional tail from the first '/', '?' or '#' on,
\* whitespace.
HostsOfShape(s) ==
    { SubSeq(s, b + 1, c) :
        <<b, c>> \in
          { bc \in (0..Len(s)) \X (0..Len(s)) :
              /\ bc[1] < bc[2]
              /\ bc[2] = Len(s) \/ s[bc[2] + 1] \in TailStart \cup WhiteSpace
              /\ \E a \in {bc[1], bc[1] - Len(HttpPrefix), bc[1] - Len(HttpsPrefix)} :
                    /\ a >= 0
                    /\ AllWhite(Take(s, a))
                    /\ \/ a = bc[1]
                       \/ [i \in 1..(bc[1] - a) |-> FoldChar(s[a + i])]
                              \in {HttpPrefix, HttpsPrefix}
              /\ \/ AllWhite(Drop(s, bc[2]))
                 \/ s[bc[2] + 1] \in TailStart
              /\ HostName(SubSeq(s, bc[1] + 1, bc[2])) } }

\* C1: for any input made of optional surrounding whitespace, an optional
\* http:// or https:// prefix in any letter case, a host name and an optional
\* tail starting at the first '/', '?' or '#', extractAndValidateDomain
\* returns the host name in lower case with prefix and tail removed.
C1_NormalisesEveryHost ==
    Validated =>
        \A h \in HostsOfShape(input) : result = [i \in 1..Len(h) |-> FoldChar(h[i])]

\* The host part of an input: what is left once surrounding whitespace, the
\* protocol prefix and the tail are stripped.
HostPart(s) == BeforeTail(StripProtocol(Trim(s)))

\* Letters: the ASCII letters and, outside ASCII, the upper-case letter U+212A.
Letters == AsciiLetters \cup {Kelvin}

HasNoDot(h) == \A i \in 1..Len(h) : h[i] # "."

HasForeignChar(h) == \E i \in 1..Len(h) : h[i] \notin Letters \cup Digits \cup {"-", "."}

C3_ResultIsRfcHost ==
    (Validated /\ result # null) =>
        /\ \A i \in 1..Len(result) : result[i] \in LowerAlpha \cup Digits \cup {"-", "."}
        /\ RfcHost(result)

(***************************************************************************)
(* Claims about requests                                                   *)
(***************************************************************************)
Done(r) == r.pc = "done"

\* No lookup was invoked for the request r.
NoLookup(r) == r.calls = 0 /\ r.arg = Undefined /\ r.pc \notin {"handler", "awaiting"}

\* The query carries no domain: none at all, an empty one, or whitespace only.
Blank(q) == q.shape = "absent" \/ (q.shape = "string" /\ AllWhite(q.value))

ErrorAnswer(res, status, error) ==
    /\ res.type = "json"
    /\ res.status = status
    /\ res.body.success = FALSE
    /\ res.body.error = error

\* C4: a request to a domain endpoint whose `domain` query parameter is
\* absent, empty or only whitespace is answered with HTTP 400 and the error
\* 'Missing domain in query', and no lookup function is invoked for it.
C4_MissingDomain ==
    \A i \in Slots :
        (reqs[i].path \in DomainPaths /\ Blank(reqs[i].query)) =>
            /\ NoLookup(reqs[i])
            /\ Done(reqs[i]) => ErrorAnswer(reqs[i].res, 400, "Missing domain in query")

\* A request to a domain endpoint with a whitespace-only domain was answered.
C4_Witness ==
    \E i \in Slots :
        /\ Done(reqs[i])
        /\ reqs[i].path \in DomainPaths
        /\ reqs[i].query.shape = "string"
        /\ reqs[i].query.value # <<>>
        /\ AllWhite(reqs[i].query.value)
        /\ reqs[i].res.status = 400

InvalidAnswer(r) ==
    /\ NoLookup(r)
    /\ Done(r) => ErrorAnswer(r.res, 400, "Invalid domain name")

\* C5 as stated: a request to a domain endpoint whose non-empty `domain`
\* query parameter is rejected by extractAndValidateDomain is answered with
\* HTTP 400 and the error 'Invalid domain name', and no lookup function is
\* invoked for it.
C5_InvalidDomain_AsStated ==
    \A i \in Slots :
        ( /\ reqs[i].path \in DomainPaths
          /\ reqs[i].query.shape = "string"
          /\ reqs[i].query.value # <<>>
          /\ extractAndValidateDomain(reqs[i].query.value) = null )
        => InvalidAnswer(reqs[i])

\* C5 as amended: a request to a domain endpoint whose `domain` query
\* parameter holds more than whitespace and is rejected by
\* extractAndValidateDomain is answered with HTTP 400 and the error 'Invalid
\* domain name', and no lookup function is invoked for it.
C5_InvalidDomain ==
    \A i \in Slots :
        ( /\ reqs[i].path \in DomainPaths
          /\ reqs[i].query.shape = "string"
          /\ ~AllWhite(reqs[i].query.value)
          /\ extractAndValidateDomain(reqs[i].query.value) = null )
        => InvalidAnswer(reqs[i])

\* A request to a domain endpoint with a rejected domain was answered.
C5_Witness ==
    \E i \in Slots :
        /\ Done(reqs[i])
        /\ reqs[i].path \in DomainPaths
        /\ reqs[i].query.shape = "string"
        /\ ~AllWhite(reqs[i].query.value)
        /\ extractAndValidateDomain(reqs[i].query.value) = null
        /\ reqs[i].res.status = 400

IsDigits(s, from, to) == \A i \in from..to : s[i] \in Digits

\* The number a string of digits writes.
RECURSIVE NumberOf(_)
NumberOf(s) ==
    IF s = <<>> THEN 0
    ELSE 10 * NumberOf(Take(s, Len(s) - 1))
           + (CHOOSE d \in 0..9 : DigitSeq[d + 1] = s[Len(s)])

\* ISO-8601 in its extended form, YYYY-MM-DDTHH:mm:ss.sssZ.
IsIso8601(s) ==
    /\ Len(s) = 24
    /\ IsDigits(s, 1, 4) /\ s[5] = "-" /\ IsDigits(s, 6, 7) /\ s[8] = "-"
    /\ IsDigits(s, 9, 10) /\ s[11] = "T" /\ IsDigits(s, 12, 13) /\ s[14] = ":"
    /\ IsDigits(s, 15, 16) /\ s[17] = ":" /\ IsDigits(s, 18, 19) /\ s[20] = "."
    /\ IsDigits(s, 21, 23) /\ s[24] = "Z"
    /\ NumberOf(SubSeq(s, 6, 7)) \in 1..12
    /\ NumberOf(SubSeq(s, 9, 10)) \in 1..31
    /\ NumberOf(SubSeq(s, 12, 13)) \in 0..23
    /\ NumberOf(SubSeq(s, 15, 16)) \in 0..59
    /\ NumberOf(SubSeq(s, 18, 19)) \in 0..59

\* C6: for every domain endpoint, when its lookup completes successfully the
\* response is HTTP 200 with success: true, a scanDate in ISO-8601 form, and
\* data holding the validated domain and the lookup's result.
C6_SuccessIs200 ==
    \A i \in Slots :
        (Done(reqs[i]) /\ reqs[i].path \in DomainPaths /\ reqs[i].ext = "ok") =>
            /\ reqs[i].res.status = 200
            /\ reqs[i].res.type = "json"
            /\ reqs[i].res.body.success = TRUE
            /\ IsIso8601(reqs[i].res.body.scanDate)
            /\ DOMAIN reqs[i].res.body.data = {"domain", "response"}
            /\ reqs[i].res.body.data.domain = extractAndValidateDomain(reqs[i].query.value)

\* C7: for every domain endpoint, whenever the external dependency of its
\* lookup fails, the response is HTTP 500 with success: false and that
\* endpoint's fixed error message, whatever the underlying cause.
C7_FailureIs500 ==
    \A i \in Slots :
        (Done(reqs[i]) /\ reqs[i].path \in DomainPaths /\ Failed(reqs[i].ext)) =>
            ErrorAnswer(reqs[i].res, 500, domainRoute[reqs[i].path].error)

\* The response envelope: {success, scanDate, data | error, message?, code?}.
IsEnvelope(res) ==
    /\ res.type = "json"
    /\ {"success", "scanDate"} \subseteq DOMAIN res.body
    /\ DOMAIN res.body \subseteq {"success", "scanDate", "data", "error", "message", "code"}
    /\ res.body.success = TRUE =>
          "data" \in DOMAIN res.body /\ "error" \notin DOMAIN res.body
    /\ res.body.success = FALSE =>
          "error" \in DOMAIN res.body /\ "data" \notin DOMAIN res.body
    /\ "code" \in DOMAIN res.body => res.body.code = res.status

\* C8: every response the API sends, for any request to any endpoint and any
\* shape of the `domain` query value, is the response envelope.
C8_EveryResponseIsEnvelope ==
    \A i \in Slots :
        (reqs[i].sent > 0 /\ reqs[i].path \in DomainPaths \cup {HealthPath}) =>
            IsEnvelope(reqs[i].res)

\* A success envelope whose data holds the uptime and the message 'OK'.
HealthAnswer(res) ==
    /\ res.type = "json"
    /\ res.status = 200
    /\ res.body.success = TRUE
    /\ "uptime" \in DOMAIN res.body.data
    /\ res.body.data.message = "OK"

\* C9 as stated: a GET request to the /health endpoint carrying no query
\* parameters is answered with a success envelope whose data holds the
\* process uptime and the fixed status message 'OK'; it is never rejected
\* for a missing domain.
C9_Health_AsStated ==
    \A i \in Slots :
        (Done(reqs[i]) /\ reqs[i].path = "/health" /\ reqs[i].query = Absent) =>
            HealthAnswer(reqs[i].res)

\* C9 as amended: a GET request to the /_health endpoint carrying no query
\* parameters is answered with a success envelope whose data holds the
\* process uptime and the fixed status message 'OK'; it is never rejected
\* for a missing domain.
C9_Health ==
    \A i \in Slots :
        (Done(reqs[i]) /\ reqs[i].path = HealthPath /\ reqs[i].query = Absent) =>
            HealthAnswer(reqs[i].res)

\* A request to /_health with no query parameters was answered.
C9_Witness ==
    \E i \in Slots :
        /\ Done(reqs[i])
        /\ reqs[i].path = HealthPath
        /\ reqs[i].query = Absent
        /\ reqs[i].sent = 1

(***************************************************************************)
(* Claims about the cluster supervisor                                     *)
(***************************************************************************)
Clustered == cluster.mode = "production" /\ cluster.started

WorkersIn(state) ==
    {w \in 1..Len(cluster.workers) : cluster.workers[w].state = state}

Live == Cardinality(WorkersIn("online"))

\* C10: in clustered mode the supervisor restarts any worker that exits:
\* every worker exit event is followed by the fork of exactly one replacement
\* worker, so after any sequence of worker exits the number of live workers
\* returns to N (the CPU count) and never exceeds N.
\*   - never more than N live workers, and N less one per exit not yet handled;
\*   - one fork at start-up per CPU and one per exit handled, no other;
\*   - every exit is handled in the end;
\*   - in the end N workers are live, and stay so.
C10_SupervisorRestartsWorkers ==
    /\ [](Clustered =>
            /\ Live <= cluster.cpus
            /\ Live + Cardinality(WorkersIn("exited")) = cluster.cpus
            /\ Len(cluster.workers) = cluster.cpus + Cardinality(WorkersIn("reaped")))
    /\ \A w \in WorkerIds :
          (w \in WorkersIn("exited")) ~> (w \in WorkersIn("reaped"))
    /\ <>[](cluster.mode = "production" => (Clustered /\ Live = cluster.cpus))

\* Workers have died, every exit has been handled, and N workers are live.
C10_Witness ==
    /\ Clustered
    /\ Cardinality(WorkersIn("reaped")) = MaxExits
    /\ WorkersIn("exited") = {}
    /\ Live = cluster.cpus

\* The servers a worker has started.
ServersOf(w) == cluster.workers[w].servers

\* C11: multi-process fan-out happens only when NODE_ENV is 'production': then
\* the primary process forks exactly N workers at start-up (N = CPU count) and
\* never starts an HTTP server itself, and each worker starts the server
\* exactly once; in any other mode exactly one process starts the server and
\* nothing is forked.
\*   - before the entry point has run nothing is forked and nothing serves;
\*   - the entry point forks N workers in production and none otherwise;
\*   - in production the primary never serves, a worker that has run its
\*     entry point serves once and one that has not serves nothing;
\*   - otherwise the one process serves once and has no workers, ever.
C11_FanOutOnlyInProduction ==
    /\ [](~cluster.started => (cluster.workers = <<>> /\ cluster.servers = 0))
    /\ [][(~cluster.started /\ cluster'.started) =>
            Len(cluster'.workers) = IF cluster.mode = "production" THEN cluster.cpus ELSE 0]_vars
    /\ [](cluster.mode = "production" =>
            /\ cluster.servers = 0
            /\ \A w \in 1..Len(cluster.workers) :
                  ServersOf(w) = IF cluster.workers[w].booted THEN 1 ELSE 0)
    /\ []((cluster.mode # "production" /\ cluster.started) =>
            (cluster.servers = 1 /\ cluster.workers = <<>>))

\* In production on MaxCPUs cores every worker forked at start-up has started
\* its server.
C11_Witness ==
    /\ Clustered
    /\ cluster.cpus = MaxCPUs
    /\ Len(cluster.workers) = MaxCPUs
    /\ \A w \in 1..Len(cluster.workers) : cluster.workers[w].booted /\ ServersOf(w) = 1

(***************************************************************************)
(* Claims about lookups                                                    *)
(***************************************************************************)
\* A lookup was invoked for the request r.
LookedUp(r) == r.arg # Undefined

\* C12: handling one request performs exactly one external call: for every
\* endpoint and every outcome of the external dependency, the lookup issues
\* a single call to its dependency and none after that call has returned or
\* failed (no retry, no second round trip).
C12_OneExternalCall ==
    \A i \in Slots :
        /\ reqs[i].calls <= 1
        /\ LookedUp(reqs[i]) => reqs[i].calls = 1

\* C13: the validated domain is the sole key of every lookup: whenever a
\* route handler invokes a lookup function, the argument is exactly the value
\* extractAndValidateDomain returned for that request's `domain` parameter,
\* unchanged between validation and lookup, and a lookup is never invoked
\* with a raw or rejected input.
\*   - the argument is the validator's result on the request's parameter, a
\*     string parameter, and that result is no rejection;
\*   - req.domain, once set, keeps its value, and so does the argument.
C13_ValidatedDomainIsTheKey ==
    /\ [](\A i \in Slots :
            LookedUp(reqs[i]) =>
                /\ reqs[i].query.shape = "string"
                /\ reqs[i].arg = extractAndValidateDomain(reqs[i].query.value)
                /\ reqs[i].arg # null
                /\ reqs[i].arg = reqs[i].domain)
    /\ [][\A i \in Slots :
            /\ reqs[i].domain # Undefined => reqs'[i].domain = reqs[i].domain
            /\ LookedUp(reqs[i]) => reqs'[i].arg = reqs[i].arg]_vars

\* A lookup was invoked with a key that differs from the raw parameter, and
\* its request has been answered.
C13_Witness ==
    \E i \in Slots :
        /\ Done(reqs[i])
        /\ LookedUp(reqs[i])
        /\ reqs[i].calls >= 1
        /\ reqs[i].arg # reqs[i].query.value
        /\ reqs[i].arg # Trim(reqs[i].query.value)

(***************************************************************************)
(* Claims about requests in flight together                                *)
(***************************************************************************)
\* The responses the request r can get going by nothing but its own path, its
\* own `domain` parameter and the outcomes of its own external calls (r.ext,
\* and r.redirects for the Location headers it was sent).
OwnAnswers(r) ==
    LET m == domainQueryMiddleware(r.query)
    IN  CASE m.does = "throw" -> {ExpressError}
          [] m.does = "sendError" -> {sendError(m.error, Some(400), t) : t \in Clock}
          [] m.does = "next" /\ r.path \notin DomainPaths -> {ExpressNotFound}
          [] OTHER ->
               LET route == domainRoute[r.path]
                   got   == Lookup(route.lookup, m.domain, r.redirects, r.ext)
               IN  { IF got.threw
                     THEN sendError(route.error, Some(500), t)
                     ELSE sendSuccess([domain |-> m.domain,
                                       response |-> IF r.path = "/txt"
                                                    THEN Flat(got.value) ELSE got.value],
                                      None, t) : t \in Clock }

\* C14: requests are handled independently: for any interleaving of two or
\* more in-flight requests within one process, the response to each request
\* depends only on that request's own domain parameter and the outcome of
\* its own external call, never on another in-flight request.
\*   - the answer to a request is one its own path, parameter and outcomes give;
\*   - a step of one request leaves every other request as it was.
C14_RequestsAreIndependent ==
    /\ [](\A i \in DOMAIN reqs :
            (Done(reqs[i]) /\ reqs[i].path # HealthPath) => reqs[i].res \in OwnAnswers(reqs[i]))
    /\ [][\A i, j \in DOMAIN reqs :
            (i # j /\ reqs'[i] # reqs[i]) => reqs'[j] = reqs[j]]_vars

\* One request has been answered with its lookup's result while another, for
\* another domain, is waiting for its external call.
C14_Witness ==
    \E i, j \in DOMAIN reqs :
        /\ i # j
        /\ Done(reqs[i]) /\ LookedUp(reqs[i]) /\ reqs[i].res.status = 200
        /\ reqs[j].pc = "awaiting"
        /\ reqs[j].arg # reqs[i].arg
        /\ reqs[j].path = reqs[i].path

(***************************************************************************)
(* Claims about getTraceRedirects                                          *)
(***************************************************************************)
\* C15: getTraceRedirects terminates for every behaviour of the remote
\* server: it follows the redirect chain until there are no more redirects
\* or a maximum number of redirects is reached, and returns the redirect URLs
\* in the order they were followed.
\*   - every call returns or throws in the end;
\*   - each Location followed is put at the end of the list, nothing else is;
\*   - what it returns is that list.
C15_TraceRedirectsTerminates ==
    /\ <>(result[1] \in {"fulfilled", "rejected"})
    /\ [][reqs.pc = "awaiting" =>
            \/ reqs'.redirects = reqs.redirects
            \/ reqs'.redirects = Append(reqs.redirects, reqs'.url)]_vars
    /\ [](result[1] = "fulfilled" => result[2] = reqs.redirects)

(***************************************************************************)
(* Claims about single lookups                                             *)
(***************************************************************************)
\* The lookup `lookup` has settled.
SettledOf(lookup) == reqs.pc = "done" /\ reqs.lookup = lookup

\* C16: getScreenshot returns the base64-encoded screenshot of the page
\* whenever the browser launch, the navigation and the capture all succeed,
\* and throws 'Failed to take screenshot' only when one of them fails.
C16_ScreenshotReturnsOnSuccess ==
    SettledOf("getScreenshot") =>
        /\ reqs.outcome = "ok" =>
              (result[1] = "fulfilled" /\ result[2] = ExtValue("getScreenshot", input))
        /\ (result[1] = "rejected" /\ result[2] = "Failed to take screenshot") =>
              reqs.outcome # "ok"

(***************************************************************************)
(* Claims about getPerformanceMetrics                                      *)
(***************************************************************************)
Has(s, c) == \E i \in 1..Len(s) : s[i] = c

\* The tokens of s from its first '{' to its last '}', none when the one
\* does not come before the other.
BraceSpan(s) ==
    LET opens  == {i \in 1..Len(s) : s[i] = "{"}
        closes == {i \in 1..Len(s) : s[i] = "}"}
        first  == CHOOSE i \in opens : \A j \in opens : i <= j
        last   == CHOOSE i \in closes : \A j \in closes : i >= j
    IN  IF opens = {} \/ closes = {} THEN <<>> ELSE SubSeq(s, first, last)

\* C17: getPerformanceMetrics never rejects: on any error of the Lighthouse
\* command, on empty output, on output without a JSON object, or on
\* unparsable JSON it resolves with null, and otherwise it resolves with the
\* parsed object spanning the first '{' to the last '}' of the output.
C17_PerformanceNeverRejects ==
    reqs.pc = "done" =>
        /\ result[1] = "fulfilled"
        /\ reqs.error => result[2] = null
        /\ input = <<>> => result[2] = null
        /\ (~Has(input, "{") \/ ~Has(input, "}")) => result[2] = null
        /\ JSONparse(BraceSpan(input)).threw => result[2] = null
        /\ (~reqs.error /\ ~JSONparse(BraceSpan(input)).threw) =>
              /\ result[2] = JSONparse(BraceSpan(input)).value
              /\ result[2][1] = "obj"

\* Output that begins with text and holds an object with a member has been
\* parsed, and so has output that holds an object within an object.
C17_Witness ==
    /\ reqs.pc = "done"
    /\ ~reqs.error
    /\ result[2] # null
    /\ Len(result[2]) = 2
    /\ input[1] = "x" \/ result[2][2] = EmptyObject

(***************************************************************************)
(* Claims about the whois parsers                                          *)
(***************************************************************************)
\* The lines of a text.
LinesOf(raw) == SplitOn(raw, "\n")

\* The key of a line, what precedes its first colon, and its value, what
\* follows it; both without the whitespace around them.
KeyOf(line) == Trim(Take(line, FirstIn(line, {":"}) - 1))

ValueOf(line) == Trim(Drop(line, FirstIn(line, {":"})))

\* A line of the form 'key: value' with a key and a value.
IsKeyValue(line) == Has(line, ":") /\ KeyOf(line) # <<>> /\ ValueOf(line) # <<>>

RECURSIVE ValuesIn(_, _)
\* The values of the lines of key `key`, in line order.
ValuesIn(lines, key) ==
    IF lines = <<>> THEN <<>>
    ELSE (IF IsKeyValue(Head(lines)) /\ KeyOf(Head(lines)) = key
          THEN <<ValueOf(Head(lines))>> ELSE <<>>) \o ValuesIn(Tail(lines), key)

KeysIn(raw) ==
    { KeyOf(LinesOf(raw)[n]) : n \in {m \in 1..Len(LinesOf(raw)) : IsKeyValue(LinesOf(raw)[m])} }

\* C18: parseWhois maps every key to the values of its lines: for each key
\* occurring on lines of the form 'key: value' with non-empty key and value
\* (split at the first colon), the result holds the single value as a string
\* when the key occurs once, and an array of all its values in line order
\* when it occurs more than once; lines without a colon, with an empty key
\* or with an empty value contribute nothing.
C18_ParseWhoisMapsKeys ==
    result[1] = "returned" =>
        /\ DOMAIN result[2] = KeysIn(input)
        /\ \A key \in KeysIn(input) :
              LET values == ValuesIn(LinesOf(input), key)
              IN  result[2][key] =
                    IF Len(values) = 1 THEN Str(values[1]) ELSE Arr(values)

(***************************************************************************)
(* getDomainAgeFromWhoIs, src/apps/api/src/utils/domainUtils.ts.  The      *)
(* process runs in UTC: getFullYear and getMonth read the UTC calendar.    *)
(***************************************************************************)
IsLeapYear(y) == (y % 4 = 0 /\ y % 100 # 0) \/ y % 400 = 0

DaysInMonth(y, m) ==
    IF m = 2 THEN (IF IsLeapYear(y) THEN 29 ELSE 28)
    ELSE IF m \in {4, 6, 9, 11} THEN 30 ELSE 31

\* MakeDay: the day number of a date of the calendar, for years from 0 on.
DaysFromCivil(y, m, d) ==
    LET yy  == IF m <= 2 THEN y - 1 ELSE y
        era == yy \div 400
        yoe == yy - era * 400
        doy == (153 * (IF m > 2 THEN m - 3 ELSE m + 9) + 2) \div 5 + d - 1
        doe == yoe * 365 + yoe \div 4 - yoe \div 100 + doy
    IN  era * 146097 + doe - 719468

NotADate == [ok |-> FALSE, day |-> 0, ms |-> 0]

\* new Date(s) for s in the date-time form YYYY-MM-DDTHH:mm:ss[.sss]Z; NaN,
\* here NotADate, for a string of no date form at all.
DateParse(s) ==
    IF /\ Len(s) \in {20, 24}
       /\ IsDigits(s, 1, 4) /\ s[5] = "-" /\ IsDigits(s, 6, 7) /\ s[8] = "-"
       /\ IsDigits(s, 9, 10) /\ s[11] = "T" /\ IsDigits(s, 12, 13) /\ s[14] = ":"
       /\ IsDigits(s, 15, 16) /\ s[17] = ":" /\ IsDigits(s, 18, 19)
       /\ s[Len(s)] = "Z"
       /\ Len(s) = 24 => (s[20] = "." /\ IsDigits(s, 21, 23))
    THEN LET y  == NumberOf(SubSeq(s, 1, 4))
             m  == NumberOf(SubSeq(s, 6, 7))
             d  == NumberOf(SubSeq(s, 9, 10))
             hh == NumberOf(SubSeq(s, 12, 13))
             mm == NumberOf(SubSeq(s, 15, 16))
             ss == NumberOf(SubSeq(s, 18, 19))
             ms == IF Len(s) = 24 THEN NumberOf(SubSeq(s, 21, 23)) ELSE 0
         IN  IF m \in 1..12 /\ d >= 1 /\ d <= DaysInMonth(y, m)
                /\ hh <= 23 /\ mm <= 59 /\ ss <= 59
             THEN [ok |-> TRUE, day |-> DaysFromCivil(y, m, d),
                   ms |-> ((hh * 60 + mm) * 60 + ss) * 1000 + ms]
             ELSE NotADate
    ELSE NotADate

\* creationDateStr.split(/\r?\n/).map(trim).filter(length > 0)
AgeLines(str) ==
    SelectSeq([n \in 1..Len(SplitOn(str, "\n")) |-> Trim(SplitOn(str, "\n")[n])],
              LAMBDA line : line # <<>>)

\* line.match(/:\s*(.+)$/)[1].trim() of a trimmed line: what follows its
\* first colon; <<>> when the line has no colon or ends with its first one.
AgeMatch(line) ==
    IF indexOf(line, ":") = 0 THEN <<>> ELSE Trim(Drop(line, indexOf(line, ":")))

RECURSIVE AgeDateValue(_)
\* The loop: the match of the first line that has one, null (<<>>) if none has.
AgeDateValue(lines) ==
    IF lines = <<>> THEN <<>>
    ELSE IF AgeMatch(Head(lines)) # <<>> THEN AgeMatch(Head(lines))
    ELSE AgeDateValue(Tail(lines))

\* An object the function returns.
AgeObject(years, months, totalDays, registeredOn) ==
    <<"object", [years |-> years, months |-> months, totalDays |-> totalDays,
                 registeredOn |-> <<registeredOn.day, registeredOn.ms>>]>>

\* getDomainAgeFromWhoIs(creationDateStr), with `now` for new Date().
getDomainAgeFromWhoIs(creationDateStr, now) ==
    IF creationDateStr = <<>> THEN null
    ELSE LET dateValue == AgeDateValue(AgeLines(creationDateStr))
         IN  IF dateValue = <<>> THEN null
             ELSE LET creationDate == DateParse(dateValue)
                  IN  IF ~creationDate.ok THEN null
                      ELSE LET diffDays == (now.day - creationDate.day)
                                             - (IF now.ms < creationDate.ms THEN 1 ELSE 0)
                               years  == CivilFromDays(now.day).year
                                           - CivilFromDays(creationDate.day).year
                               months == CivilFromDays(now.day).month
                                           - CivilFromDays(creationDate.day).month
                           IN  IF months < 0
                               THEN AgeObject(years - 1, months + 12, diffDays, creationDate)
                               ELSE AgeObject(years, months, diffDays, creationDate)

\* An instant of the calendar.
Instant(y, m, d, ms) == [day |-> DaysFromCivil(y, m, d), ms |-> ms, up |-> 0]

\* The creation dates of the runs, and the instants at which they are read.
AgeCreated ==
    { Instant(1997, 9, 15, 14400000), Instant(2020, 1, 31, 0), Instant(2024, 2, 29, 86399000) }

AgeNow ==
    { Instant(2026, 11, 3, 36000000), Instant(2025, 2, 27, 86399000), Instant(2024, 3, 31, 0) }

CreationDateLabel == <<"C","r","e","a","t","i","o","n"," ","D","a","t","e">>

\* The lines `whois | grep -i "Creation Date"` may print, and others.
AgeLinePool ==
    { CreationDateLabel \o <<":", " ">> \o toISOString(t) : t \in AgeCreated }
    \cup { <<" ", " ">> \o CreationDateLabel \o <<":">> \o toISOString(t) \o <<"\r">> : t \in AgeCreated }
    \cup { CreationDateLabel \o <<":", " ", "x">>, CreationDateLabel \o <<":">>,
           CreationDateLabel, <<>> }

AgeInputs == UNION {{JoinLines(ls) : ls \in [1..n -> AgeLinePool]} : n \in 1..MaxLines}

InitAge ==
    /\ input \in AgeInputs
    /\ result = Pending
    /\ reqs \in {[now |-> t] : t \in AgeNow}
    /\ cluster = ClusterIdle

\* getDomainAgeFromWhoIs(stdout) of getDomainAge.
ComputeAge ==
    /\ result = Pending
    /\ result' = getDomainAgeFromWhoIs(input, reqs.now)
    /\ UNCHANGED <<input, reqs, cluster>>

NextAge == ComputeAge

SpecAge == InitAge /\ [][NextAge]_vars

(***************************************************************************)
(* Claims about getDomainAgeFromWhoIs                                      *)
(***************************************************************************)
\* The lines of the text that hold a value after a colon.
Valued(str) ==
    {n \in 1..Len(LinesOf(str)) : Has(LinesOf(str)[n], ":") /\ ValueOf(LinesOf(str)[n]) # <<>>}

\* The value of the first of them.
FirstValue(str) == ValueOf(LinesOf(str)[CHOOSE n \in Valued(str) : \A m \in Valued(str) : n <= m])

\* t1 comes before t2 within a month: an earlier day of the month, or the
\* same day and an earlier time of day.
EarlierInMonth(t1, t2) ==
    \/ CivilFromDays(t1.day).date < CivilFromDays(t2.day).date
    \/ CivilFromDays(t1.day).date = CivilFromDays(t2.day).date /\ t1.ms < t2.ms

\* The whole months elapsed from `from` to `to`.
WholeMonths(from, to) ==
    (CivilFromDays(to.day).year - CivilFromDays(from.day).year) * 12
      + (CivilFromDays(to.day).month - CivilFromDays(from.day).month)
      - (IF EarlierInMonth(to, from) THEN 1 ELSE 0)

\* The whole days elapsed from `from` to `to`: the most days that, added to
\* `from`, give an instant not after `to`.
WholeDays(from, to) ==
    CHOOSE d \in 0..(to.day - from.day) :
        /\ NotAfter([day |-> from.day + d, ms |-> from.ms], to)
        /\ ~NotAfter([day |-> from.day + d + 1, ms |-> from.ms], to)

\* C19: getDomainAgeFromWhoIs returns null when the input is empty, has no
\* line with a value after a colon, or that value is not a date; otherwise
\* it returns years as the number of whole years elapsed since the creation
\* date, months as the remaining whole months with 0 <= months <= 11, and
\* totalDays as the whole number of days elapsed.
C19_DomainAge ==
    result # Pending =>
        IF input = <<>> \/ Valued(input) = {} \/ ~DateParse(FirstValue(input)).ok
        THEN result = null
        ELSE LET created == DateParse(FirstValue(input))
             IN  /\ result[1] = "object"
                 /\ result[2].years = WholeMonths(created, reqs.now) \div 12
                 /\ result[2].months = WholeMonths(created, reqs.now) % 12
                 /\ result[2].months \in 0..11
                 /\ result[2].totalDays = WholeDays(created, reqs.now)

(***************************************************************************)
(* Shell commands: the command line handed to exec, src/unnamed/part_003   *)
(***************************************************************************)
\* The lookups that run a shell command, by route.
ExecRoutes == {"/whois", "/age", "/performance"}

\* The text of the template literal before and after ${domain}, each as one
\* piece of the command line.
CommandHead ==
    [getWhoisInfo |-> <<"whois ">>,
     getDomainAge |-> <<"whois ">>,
     getPerformanceMetrics |-> <<"npx lighthouse https://">>]

CommandTail ==
    [getWhoisInfo |-> <<>>,
     getDomainAge |-> <<" | grep -i \"Creation Date\"">>,
     getPerformanceMetrics |->
        <<" --quiet --output=json --output-path=stdout --chrome-flags=\"--headless --no-sandbox --disable-gpu\"">>]

\* `whois ${domain}`, `whois ${domain} | grep -i "Creation Date"`,
\* `npx lighthouse https://${domain} --quiet ...`
CommandOf(lookup, domain) == CommandHead[lookup] \o domain \o CommandTail[lookup]

ShellIdle == [pc |-> "idle", lookup |-> "", command |-> <<>>]

\* GET path?domain=input up to the exec call of the lookup: the middleware
\* answers 400, or the handler calls the lookup, which builds its command.
ShellRequest(path) ==
    /\ reqs.pc = "idle"
    /\ LET m      == domainQueryMiddleware(Str(input))
           lookup == domainRoute[path].lookup
       IN  reqs' = IF m.does = "next"
                   THEN [pc |-> "exec", lookup |-> lookup, command |-> CommandOf(lookup, m.domain)]
                   ELSE [pc |-> "rejected", lookup |-> lookup, command |-> <<>>]
    /\ UNCHANGED <<input, result, cluster>>

\* Raw values of the `domain` parameter: every string of at most MaxShortLen
\* characters of ShellAlphabet, and some longer ones.
ShellAlphabet == {"a", "B", "1", "-", ".", ";", " ", "/"}

ShellInputs ==
    UNION {[1..n -> ShellAlphabet] : n \in 0..MaxShortLen}
    \cup { <<"a",".","c","o",";","l","s">>, <<"a",".","c","o","/",";","l","s">>,
           <<"a",".","c","o"," ","-","h">>, <<"-","h",".","c","o">>,
           <<"-","-","h","e","l","p",".","c","o","m">>, <<"$","(","i","d",")",".","c","o">>,
           <<"a",".","c","o","|","i","d">>, <<"a",".","c","o","\n","i","d">>,
           <<"a",">","i","d",".","c","o">>, <<"a",".","c","o","&","&","i","d">>,
           <<"h","t","t","p",":","/","/","A","-","1",".","c","o","?","x","=",";","i","d">>,
           <<Kelvin,".","c","o">>, <<"a",".","c",Kelvin>>, <<"a",".","c","o","#","$","x">> }

InitShell ==
    /\ input \in ShellInputs
    /\ result = Pending
    /\ reqs = ShellIdle
    /\ cluster = ClusterIdle

NextShell == \E path \in ExecRoutes : ShellRequest(path)

SpecShell == InitShell /\ [][NextShell]_vars

(***************************************************************************)
(* Claims about shell commands                                             *)
(***************************************************************************)
\* What the command line holds between the text before and after ${domain}.
Interpolated(command, lookup) ==
    SubSeq(command, Len(CommandHead[lookup]) + 1, Len(command) - Len(CommandTail[lookup]))

\* C20: every string interpolated into a shell command (whois, whois | grep,
\* npx lighthouse) consists only of lowercase letters, digits, hyphens and
\* dots and does not begin with a hyphen, for any raw `domain` query value a
\* client can send; no request can make a shell metacharacter, whitespace or
\* an option flag reach the command line.
C20_ShellWordsAreSafe ==
    reqs.pc = "exec" =>
        LET word == Interpolated(reqs.command, reqs.lookup)
        IN  /\ reqs.command = CommandHead[reqs.lookup] \o word \o CommandTail[reqs.lookup]
            /\ word # <<>>
            /\ \A i \in 1..Len(word) : word[i] \in LowerAlpha \cup Digits \cup {"-", "."}
            /\ word[1] # "-"

\* A command has been built for a raw value that holds a shell metacharacter
\* or an upper-case letter.
C20_Witness ==
    /\ reqs.pc = "exec"
    /\ reqs.lookup = "getDomainAge"
    /\ Has(input, ";") \/ Has(input, "$") \/ Has(input, Kelvin)
    /\ Interpolated(reqs.command, reqs.lookup) # input

(***************************************************************************)
(* One request from arrival to answer, with every step taken in time       *)
(***************************************************************************)
\* The request the runs below follow.
TheRequest == 1

\* getTraceRedirects past the hops kept in `redirects`: the response carries
\* a Location header again, url = location, and the loop goes round.  The
\* slot keeps the first MaxHops entries of `redirects` and counts the calls
\* that filled them; `input` holds `url`.
RedirectsGoOn(i, location) ==
    /\ reqs[i].pc = "awaiting"
    /\ domainRoute[reqs[i].path].lookup = "getTraceRedirects"
    /\ Len(reqs[i].redirects) >= MaxHops
    /\ input' = location
    /\ reqs' = [reqs EXCEPT ![i].ext = "location"]
    /\ UNCHANGED <<result, cluster>>

\* The external call in flight for the request comes to an end.
ExternalEnds(i) ==
    \/ \E outcome \in UNION {Outcomes[d] : d \in DOMAIN Outcomes} \cup {"location"} :
          ExternalReturns(i, outcome)
    \/ \E location \in TraceLocations : RedirectsGoOn(i, location)

InitAnswered ==
    /\ input = <<>>
    /\ result = Pending
    /\ reqs = [i \in {TheRequest} |-> IdleSlot]
    /\ cluster = ClusterIdle

NextAnswered ==
    \/ \E path \in Paths, query \in Queries : Receive(TheRequest, path, query)
    \/ healthRoute(TheRequest)
    \/ domainRouter(TheRequest)
    \/ RouteHandler(TheRequest)
    \/ ExternalEnds(TheRequest)
    \/ FinalHandler(TheRequest)

\* Express runs every layer the request reaches and the handler up to its
\* await, and every external call completes or fails.  The middleware can
\* run whenever the request is at the domain router and only then, so that
\* it runs in time says that the request is not at that router for ever.
SpecAnswered ==
    /\ InitAnswered
    /\ [][NextAnswered]_vars
    /\ WF_vars(healthRoute(TheRequest))
    /\ []<>(~AtRouter(TheRequest, "domainRoute"))
    /\ WF_vars(RouteHandler(TheRequest))
    /\ WF_vars(ExternalEnds(TheRequest))
    /\ WF_vars(FinalHandler(TheRequest))

(***************************************************************************)
(* Claims about the answer of a request                                    *)
(***************************************************************************)
\* The request is one to a domain endpoint.
ToDomainEndpoint(r) == r.pc # "idle" /\ r.path \in DomainPaths

\* The middleware has called next(): the handler runs, or has run.
NextCalled(r) == r.pc \in {"handler", "awaiting"} \/ r.calls > 0

\* The success envelope or the error envelope of the handler of the path.
HandlerAnswer(r) ==
    /\ IsEnvelope(r.res)
    /\ \/ r.res.status = 200 /\ r.res.body.success = TRUE
       \/ ErrorAnswer(r.res, 500, domainRoute[r.path].error)

\* The middleware sent a 400 and did not call next(), or called next() and
\* sent nothing.
MiddlewareSendsOrCallsNext(r) ==
    /\ (Done(r) /\ ~NextCalled(r)) =>
          /\ r.sent = 1
          /\ IsEnvelope(r.res)
          /\ r.res.status = 400
          /\ r.res.body.success = FALSE
    /\ r.pc \in {"handler", "awaiting"} => r.sent = 0 /\ r.domain # Undefined

\* The handler sent one envelope: never both, never neither.
HandlerSendsOne(r) ==
    /\ r.sent <= 1
    /\ (Done(r) /\ NextCalled(r)) => r.sent = 1 /\ HandlerAnswer(r)

\* C21: every request routed to a domain endpoint receives exactly one
\* response, provided its external call completes or fails: the middleware
\* either sends a 400 and does not call next, or calls next without sending
\* anything, and the handler then sends exactly one of the success envelope
\* or the error envelope, never both and never neither.
C21_ExactlyOneResponse ==
    /\ [](\A i \in DOMAIN reqs :
             ToDomainEndpoint(reqs[i]) =>
                 MiddlewareSendsOrCallsNext(reqs[i]) /\ HandlerSendsOne(reqs[i]))
    /\ \A i \in {TheRequest} :
          ToDomainEndpoint(reqs[i]) ~> (Done(reqs[i]) /\ reqs[i].sent = 1)

====
